---- MODULE Spec2Model ----
(***************************************************************************)
(* Model of the hash-anchoring server (src/test.js): records are hashed,   *)
(* the hash is submitted to a ledger topic, the record is kept in a        *)
(* document store, and verification replays the topic and looks for the    *)
(* recomputed hash.                                                        *)
(*                                                                         *)
(* JavaScript values are records [k, v]: k is the type tag ("string",      *)
(* "number", "undefined") and v the text of the value (a number's text is  *)
(* its decimal form).  An object is the sequence of its <<key, value>>     *)
(* pairs in insertion order.  The contents of a topic message are a        *)
(* sequence of tokens: the token "|" is the separator character, every     *)
(* other token is a run of characters without a separator.                 *)
(***************************************************************************)
EXTENDS Naturals, Sequences, FiniteSets, TLC

\* ------------------------------------------------------------------ bounds
\* The topic never grows beyond MaxTopic entries in a checked behaviour.
MaxTopic == 2
\* At most MaxDeliver callbacks are delivered to one subscription.
MaxDeliver == 2
\* At most MaxRequests HTTP requests are started in a checked behaviour.
MaxRequests == 2

\* The concurrent request slots of the server.
Req == {1, 2}

\* The slot used when the requests come one after the other.
Serial == {1}

\* --------------------------------------------------------- JavaScript values
Str(s) == [k |-> "string", v |-> s]
Num(s) == [k |-> "number", v |-> s]
Undefined == [k |-> "undefined", v |-> ""]

\* obj.key: the value of the last pair with this key, undefined when absent.
RECURSIVE Prop(_, _)
Prop(obj, key) ==
    IF obj = <<>> THEN Undefined
    ELSE IF obj[Len(obj)][1] = key THEN obj[Len(obj)][2]
    ELSE Prop(SubSeq(obj, 1, Len(obj) - 1), key)

Quote == "\""

\* JSON.stringify of a primitive: a string is quoted, a number is its digits.
JsonValue(x) == IF x.k = "string" THEN Quote \o x.v \o Quote ELSE x.v

\* JSON.stringify of the members of an object, in insertion order; a member
\* whose value is undefined is left out.
RECURSIVE JsonMembers(_)
JsonMembers(obj) ==
    IF obj = <<>> THEN <<>>
    ELSE IF obj[1][2].k = "undefined" THEN JsonMembers(Tail(obj))
    ELSE <<Quote \o obj[1][1] \o Quote \o ":" \o JsonValue(obj[1][2])>>
             \o JsonMembers(Tail(obj))

RECURSIVE Join(_, _)
Join(parts, sep) ==
    IF parts = <<>> THEN ""
    ELSE IF Len(parts) = 1 THEN parts[1]
    ELSE parts[1] \o sep \o Join(Tail(parts), sep)

JSONstringify(obj) == "{" \o Join(JsonMembers(obj), ",") \o "}"

\* crypto.createHash("sha256").update(s).digest("hex"): the digest is taken
\* to be collision free, so it is written as a tag in front of its input.
Sha256Hex(s) == "sha256:" \o s

hashData(data) == Sha256Hex(JSONstringify(data))

\* The object literals the handlers hash: the three semantic fields, in the
\* order of the literal.
PatientFields(p) ==
    << <<"name", Prop(p, "name")>>, <<"bloodType", Prop(p, "bloodType")>>,
       <<"age", Prop(p, "age")>> >>

OrganFields(o) ==
    << <<"type", Prop(o, "type")>>, <<"bloodType", Prop(o, "bloodType")>>,
       <<"donorId", Prop(o, "donorId")>> >>

\* ------------------------------------------------------------ the store
\* Strings that Number() reads as a number, with the number's decimal text.
NumericText == {"30", "31"}

\* A schema path of type String: a number is stored as its text.
CastString(x) == IF x.k = "number" THEN Str(x.v) ELSE x

\* A schema path of type Number: a numeric string is stored as the number.
CastNumber(x) == IF x.k = "string" /\ x.v \in NumericText THEN Num(x.v) ELSE x

\* A value a Number path cannot hold: the create call rejects (CastError).
CastFails(x) == x.k = "string" /\ x.v \notin NumericText

PatientCastFails(body) == CastFails(Prop(body, "age"))

\* The document Patient.create stores: the schema's paths, cast, and an _id.
PatientDoc(body, id) ==
    << <<"_id", Str(ToString(id))>>,
       <<"name", CastString(Prop(body, "name"))>>,
       <<"bloodType", CastString(Prop(body, "bloodType"))>>,
       <<"age", CastNumber(Prop(body, "age"))>> >>

OrganDoc(body, id) ==
    << <<"_id", Str(ToString(id))>>,
       <<"type", CastString(Prop(body, "type"))>>,
       <<"bloodType", CastString(Prop(body, "bloodType"))>>,
       <<"donorId", CastString(Prop(body, "donorId"))>> >>

\* ------------------------------------------------------------ the ledger
Sep == "|"

\* AnchorMessage without the separator.
AnchorMessage_NoSep(type, hash) == <<type \o hash>>

\* The template literals `PATIENT|${hash}` and `ORGAN|${hash}`.
AnchorMessage(type, hash) == <<type, Sep, hash>>

\* content.split("|"): the parts between the separators.
RECURSIVE Split(_)
Split(content) ==
    IF content = <<>> THEN <<"">>
    ELSE LET init == Split(SubSeq(content, 1, Len(content) - 1))
             t == content[Len(content)]
         IN  IF t = Sep THEN Append(init, "")
             ELSE [init EXCEPT ![Len(init)] = @ \o t]

\* const [type, hash] = content.split("|"): a missing part is undefined,
\* which, like the empty string, is falsy; both are written "".
Part(content, n) == IF Len(Split(content)) >= n THEN Split(content)[n] ELSE ""

\* Malformed with only the first part looked at.
Malformed_TypeOnly(content) == Part(content, 1) = ""

\* !type || !hash
Malformed(content) == Part(content, 1) = "" \/ Part(content, 2) = ""

\* Number.prototype.toString / parseInt on a sequence number.
SeqText(i) == ToString(i)
parseInt(s) == CHOOSE n \in 0..(MaxTopic + 1) : ToString(n) = s

\* A message the subscription hands to a callback: entry i of the topic.
TopicMessage(i, content) ==
    [sequenceNumber |-> i, consensusTimestamp |-> i, contents |-> content]

\* What the ledger can hand to the callback in the error position that is
\* not an entry.
TransportError == [error |-> "UNAVAILABLE"]

\* parseTopicMessage(msg), to its fields that come from the modelled ledger
\* (runningHash, transactionId and chunks are ledger metadata passed through).
parseTopicMessage(msg) ==
    [timestamp |-> msg.consensusTimestamp,
     sequenceNumber |-> SeqText(msg.sequenceNumber),
     message |-> Join(msg.contents, "")]

\* messages.sort((a, b) => parseInt(a.sequenceNumber) - parseInt(b.sequenceNumber)):
\* a stable sort by the comparator.
Before(a, b) == parseInt(a.sequenceNumber) <= parseInt(b.sequenceNumber)

RECURSIVE Insert(_, _)
Insert(sorted, m) ==
    IF sorted = <<>> THEN <<m>>
    ELSE IF Before(sorted[Len(sorted)], m) THEN Append(sorted, m)
    ELSE Append(Insert(SubSeq(sorted, 1, Len(sorted) - 1), m), sorted[Len(sorted)])

RECURSIVE SortMessages(_)
SortMessages(ms) ==
    IF ms = <<>> THEN <<>>
    ELSE Insert(SortMessages(SubSeq(ms, 1, Len(ms) - 1)), ms[Len(ms)])

\* ------------------------------------------------------------ request inputs
Alice30 == << <<"name", Str("Alice")>>, <<"bloodType", Str("O+")>>, <<"age", Num("30")>> >>
AliceText30 == << <<"name", Str("Alice")>>, <<"bloodType", Str("O+")>>, <<"age", Str("30")>> >>
AliceBadAge == << <<"name", Str("Alice")>>, <<"bloodType", Str("O+")>>, <<"age", Str("old")>> >>

\* The fields of Alice30 in another insertion order, with a field that is not
\* a semantic field.
AliceWard ==
    << <<"age", Num("30")>>, <<"name", Str("Alice")>>, <<"bloodType", Str("O+")>>,
       <<"ward", Str("B2")>> >>

PatientBodies == {Alice30, AliceText30, AliceBadAge, AliceWard}

\* The bodies sent to the server without a store.
OldPatientBodies == {Alice30, AliceWard}

Kidney == << <<"type", Str("kidney")>>, <<"bloodType", Str("O+")>>, <<"donorId", Str("D1")>> >>

OrganBodies == {Kidney}

\* type and id of a POST /verify body
VerifyTypes == {"patient", "organ", "vehicle"}
VerifyIds == {"1", "2", "x"}

\* The strings findById can cast to an ObjectId; the store's _ids are among them.
ObjectIdText == {"1", "2", "3", "4"}

\* expectedCount = Infinity, the default parameter of getHederaHashes
Infinity == [finite |-> FALSE, n |-> 0]
Count(n) == [finite |-> TRUE, n |-> n]
\* logs.length >= expectedCount
AtLeast(len, count) == count.finite /\ len >= count.n

NoRes == [status |-> 0]

\* What other clients of the ledger submit to the topic (the topic has no
\* submit key): a message without a separator, one of the anchor shape, and
\* one with two separators.
ForeignContents ==
    {<<"hello">>, <<"PATIENT", Sep, "sha256:{}">>, <<"PATIENT", Sep, "ab", Sep, "cd">>}

\* ------------------------------------------------------------------ state
VARIABLES
    topic,      \* the ledger topic: the contents of its entries, in sequence order
    patients,   \* the Patient collection, in insertion order
    organs,     \* the Organ collection, in insertion order
    nextId,     \* the next _id the store assigns
    modified,   \* the _ids of the documents changed in the store after their creation
    anchorOf,   \* history: for each stored _id, the hash its create request submitted
    started,    \* the number of requests started so far
    kind,       \* per slot: the handler running in it
    pc,         \* per slot: the handler's position
    body,       \* per slot: req.body
    hash,       \* per slot: the handler's hash (create) or computed (POST /verify)
    txId,       \* per slot: the transaction id submitToHedera returned
    res,        \* per slot: the response sent
    expectedCount, \* per slot: the parameter of getHederaHashes
    logs,       \* per slot: the logs array of getHederaHashes
    hederaLogs, \* per slot: the window getHederaHashes resolved with
    hederaHashes, \* per slot: the Set built from the window (GET /verify)
    messages,   \* per slot: the messages array of GET /logs
    seenSequenceNumbers, \* per slot: the Set of GET /logs
    timeout,    \* per slot: the replay's timer
    promise,    \* per slot: the replay's promise
    subscription, \* per slot: whether the handler holds the subscription handle
    sdk,        \* per slot: the subscription on the ledger's side
    unsubscribed, \* per slot: the number of unsubscribe calls
    delivered   \* per slot: the callbacks the subscription has made, in order

storeVars == <<patients, organs, nextId, modified, anchorOf>>
reqVars == <<kind, body, hash, txId>>
hashesVars == <<expectedCount, logs, hederaLogs, hederaHashes>>
logsVars == <<messages, seenSequenceNumbers, subscription, unsubscribed>>
vars == <<topic, patients, organs, nextId, modified, anchorOf, started, kind, pc, body, hash,
          txId, res, expectedCount, logs, hederaLogs, hederaHashes, messages,
          seenSequenceNumbers, timeout, promise, subscription, sdk, unsubscribed,
          delivered>>

Init ==
    /\ topic = <<>>
    /\ patients = <<>>
    /\ organs = <<>>
    /\ nextId = 1
    /\ modified = {}
    /\ anchorOf = [id \in {} |-> ""]
    /\ started = 0
    /\ kind = [r \in Req |-> "none"]
    /\ pc = [r \in Req |-> "idle"]
    /\ body = [r \in Req |-> <<>>]
    /\ hash = [r \in Req |-> ""]
    /\ txId = [r \in Req |-> 0]
    /\ res = [r \in Req |-> NoRes]
    /\ expectedCount = [r \in Req |-> Infinity]
    /\ logs = [r \in Req |-> <<>>]
    /\ hederaLogs = [r \in Req |-> <<>>]
    /\ hederaHashes = [r \in Req |-> {}]
    /\ messages = [r \in Req |-> <<>>]
    /\ seenSequenceNumbers = [r \in Req |-> {}]
    /\ timeout = [r \in Req |-> "none"]
    /\ promise = [r \in Req |-> "none"]
    /\ subscription = [r \in Req |-> FALSE]
    /\ sdk = [r \in Req |-> "none"]
    /\ unsubscribed = [r \in Req |-> 0]
    /\ delivered = [r \in Req |-> <<>>]

\* A slot is free for a new request once its response is sent.
Free(r) == pc[r] \in {"idle", "done"} /\ started < MaxRequests

\* A new request in slot r: the handler's locals are fresh.
Begin(r, k, b, position) ==
    /\ started' = started + 1
    /\ kind' = [kind EXCEPT ![r] = k]
    /\ body' = [body EXCEPT ![r] = b]
    /\ pc' = [pc EXCEPT ![r] = position]
    /\ txId' = [txId EXCEPT ![r] = 0]
    /\ logs' = [logs EXCEPT ![r] = <<>>]
    /\ hederaLogs' = [hederaLogs EXCEPT ![r] = <<>>]
    /\ hederaHashes' = [hederaHashes EXCEPT ![r] = {}]
    /\ messages' = [messages EXCEPT ![r] = <<>>]
    /\ seenSequenceNumbers' = [seenSequenceNumbers EXCEPT ![r] = {}]
    /\ unsubscribed' = [unsubscribed EXCEPT ![r] = 0]
    /\ expectedCount' = [expectedCount EXCEPT ![r] = Infinity]

\* No replay in the slot (a create request, or a request answered before one).
NoReplay(r) ==
    /\ timeout' = [timeout EXCEPT ![r] = "none"]
    /\ promise' = [promise EXCEPT ![r] = "none"]
    /\ sdk' = [sdk EXCEPT ![r] = "none"]
    /\ subscription' = [subscription EXCEPT ![r] = FALSE]
    /\ delivered' = [delivered EXCEPT ![r] = <<>>]

\* --------------------------------------------------------------- write path
\* app.post("/patients"), to its first await: the hash of the request's fields.
PostPatients(r, b) ==
    /\ Free(r)
    /\ Begin(r, "postPatients", b, "submit")
    /\ NoReplay(r)
    /\ hash' = [hash EXCEPT ![r] = hashData(PatientFields(b))]
    /\ res' = [res EXCEPT ![r] = NoRes]
    /\ UNCHANGED <<topic, storeVars>>

\* app.post("/organs"), to its first await.
PostOrgans(r, b) ==
    /\ Free(r)
    /\ Begin(r, "postOrgans", b, "submit")
    /\ NoReplay(r)
    /\ hash' = [hash EXCEPT ![r] = hashData(OrganFields(b))]
    /\ res' = [res EXCEPT ![r] = NoRes]
    /\ UNCHANGED <<topic, storeVars>>

TypeTag(k) == IF k \in {"postPatients", "oldPostPatients"} THEN "PATIENT" ELSE "ORGAN"

Failed(text) == [status |-> 500, body |-> [error |-> text]]

CreateError(k) ==
    IF k \in {"postPatients", "oldPostPatients"} THEN Failed("Failed to log patient to Hedera")
    ELSE Failed("Failed to log organ to Hedera")

\* submitToHedera succeeds: the message is appended to the topic and the
\* transaction id (here the entry's sequence number) is returned.
SubmitOk(r) ==
    /\ pc[r] = "submit" /\ kind[r] \in {"postPatients", "postOrgans"}
    /\ Len(topic) < MaxTopic
    /\ topic' = Append(topic, AnchorMessage(TypeTag(kind[r]), hash[r]))
    /\ txId' = [txId EXCEPT ![r] = Len(topic) + 1]
    /\ pc' = [pc EXCEPT ![r] = "create"]
    /\ UNCHANGED <<storeVars, started, kind, body, hash, res, hashesVars, logsVars,
                   timeout, promise, sdk, delivered>>

\* SubmitFail going on to the create call instead of the catch block.
SubmitFail_Continues(r) ==
    /\ pc[r] = "submit"
    /\ pc' = [pc EXCEPT ![r] = "create"]
    /\ UNCHANGED <<topic, storeVars, started, reqVars, res, hashesVars, logsVars,
                   timeout, promise, sdk, delivered>>

\* submitToHedera rejects: the catch block answers 500.
SubmitFail(r) ==
    /\ pc[r] = "submit"
    /\ res' = [res EXCEPT ![r] = CreateError(kind[r])]
    /\ pc' = [pc EXCEPT ![r] = "done"]
    /\ UNCHANGED <<topic, storeVars, started, reqVars, hashesVars, logsVars,
                   timeout, promise, sdk, delivered>>

\* Patient.create(patient) succeeds: the cast document is stored, 201.
CreatePatient(r) ==
    /\ pc[r] = "create" /\ kind[r] = "postPatients"
    /\ ~PatientCastFails(body[r])
    /\ LET doc == PatientDoc(body[r], nextId)
       IN  /\ patients' = Append(patients, doc)
           /\ res' = [res EXCEPT ![r] =
                        [status |-> 201,
                         body |-> [transactionId |-> txId[r], hash |-> hash[r],
                                   patient |-> doc]]]
    /\ nextId' = nextId + 1
    /\ anchorOf' = (ToString(nextId) :> hash[r]) @@ anchorOf
    /\ pc' = [pc EXCEPT ![r] = "done"]
    /\ UNCHANGED <<topic, organs, modified, started, reqVars, hashesVars, logsVars,
                   timeout, promise, sdk, delivered>>

\* Organ.create(organ) succeeds.
CreateOrgan(r) ==
    /\ pc[r] = "create" /\ kind[r] = "postOrgans"
    /\ LET doc == OrganDoc(body[r], nextId)
       IN  /\ organs' = Append(organs, doc)
           /\ res' = [res EXCEPT ![r] =
                        [status |-> 201,
                         body |-> [transactionId |-> txId[r], hash |-> hash[r],
                                   organ |-> doc]]]
    /\ nextId' = nextId + 1
    /\ anchorOf' = (ToString(nextId) :> hash[r]) @@ anchorOf
    /\ pc' = [pc EXCEPT ![r] = "done"]
    /\ UNCHANGED <<topic, patients, modified, started, reqVars, hashesVars, logsVars,
                   timeout, promise, sdk, delivered>>

\* CreateFail going back to submit the anchor again.
CreateFail_Resubmits(r) ==
    /\ pc[r] = "create"
    /\ pc' = [pc EXCEPT ![r] = "submit"]
    /\ UNCHANGED <<topic, storeVars, started, reqVars, res, hashesVars, logsVars,
                   timeout, promise, sdk, delivered>>

\* CreateFail answering 201 although nothing was stored.
CreateFail_Accepts(r) ==
    /\ pc[r] = "create"
    /\ res' = [res EXCEPT ![r] =
                 [status |-> 201,
                  body |-> [transactionId |-> txId[r], hash |-> hash[r]]]]
    /\ pc' = [pc EXCEPT ![r] = "done"]
    /\ UNCHANGED <<topic, storeVars, started, reqVars, hashesVars, logsVars,
                   timeout, promise, sdk, delivered>>

\* The create call rejects (a cast error, or the store fails): 500.
CreateFail(r) ==
    /\ pc[r] = "create"
    /\ res' = [res EXCEPT ![r] = CreateError(kind[r])]
    /\ pc' = [pc EXCEPT ![r] = "done"]
    /\ UNCHANGED <<topic, storeVars, started, reqVars, hashesVars, logsVars,
                   timeout, promise, sdk, delivered>>

\* ------------------------------------------- the server without a store
\* src/unnamed/part_002 is the server as it was before it had a store; it
\* writes to the same topic.  Its app.post("/patients"), to its first await:
\* the hash is taken over the request body as it came.
OldPostPatients(r, b) ==
    /\ Free(r)
    /\ Begin(r, "oldPostPatients", b, "submit")
    /\ NoReplay(r)
    /\ hash' = [hash EXCEPT ![r] = hashData(b)]
    /\ res' = [res EXCEPT ![r] = NoRes]
    /\ UNCHANGED <<topic, storeVars>>

\* Its submitToHedera succeeds: the message is appended and 201 is answered.
OldSubmitOk(r) ==
    /\ pc[r] = "submit" /\ kind[r] = "oldPostPatients"
    /\ Len(topic) < MaxTopic
    /\ topic' = Append(topic, AnchorMessage(TypeTag(kind[r]), hash[r]))
    /\ txId' = [txId EXCEPT ![r] = Len(topic) + 1]
    /\ res' = [res EXCEPT ![r] =
                 [status |-> 201,
                  body |-> [transactionId |-> Len(topic) + 1, hash |-> hash[r]]]]
    /\ pc' = [pc EXCEPT ![r] = "done"]
    /\ UNCHANGED <<storeVars, started, kind, body, hash, hashesVars, logsVars,
                   timeout, promise, sdk, delivered>>

\* --------------------------------------------------------------- environment
\* Someone with access to the store changes a semantic field of a document.
SetProp(doc, key, x) ==
    [k \in 1..Len(doc) |-> IF doc[k][1] = key THEN <<key, x>> ELSE doc[k]]

\* Another client of the ledger has appended a message to the topic before the
\* server takes its first request (the topic outlives the server).
ForeignSubmit(content) ==
    /\ started = 0
    /\ topic = <<>>
    /\ topic' = Append(topic, content)
    /\ UNCHANGED <<storeVars, started, pc, res, reqVars, hashesVars, logsVars,
                   timeout, promise, sdk, delivered>>

TamperPatient(i) ==
    /\ i \in 1..Len(patients)
    /\ Prop(patients[i], "age") = Num("30")
    /\ patients' = [patients EXCEPT ![i] = SetProp(@, "age", Num("31"))]
    /\ modified' = modified \cup {Prop(patients[i], "_id").v}
    /\ UNCHANGED <<topic, organs, nextId, anchorOf, started, pc, res, reqVars, hashesVars,
                   logsVars, timeout, promise, sdk, delivered>>

TamperOrgan(i) ==
    /\ i \in 1..Len(organs)
    /\ Prop(organs[i], "donorId") = Str("D1")
    /\ organs' = [organs EXCEPT ![i] = SetProp(@, "donorId", Str("D2"))]
    /\ modified' = modified \cup {Prop(organs[i], "_id").v}
    /\ UNCHANGED <<topic, patients, nextId, anchorOf, started, pc, res, reqVars, hashesVars,
                   logsVars, timeout, promise, sdk, delivered>>

\* ---------------------------------------------------------- getHederaHashes
Verifying(r) == kind[r] \in {"getVerify", "postVerify", "getHederaHashes"}

\* getHederaHashes(): an empty logs array, the 10 s timer armed, the query
\* subscribed; the handle subscribe returns is dropped.
StartHashes(r) ==
    /\ timeout' = [timeout EXCEPT ![r] = "armed"]
    /\ promise' = [promise EXCEPT ![r] = "pending"]
    /\ sdk' = [sdk EXCEPT ![r] = "open"]
    /\ subscription' = [subscription EXCEPT ![r] = FALSE]
    /\ delivered' = [delivered EXCEPT ![r] = <<>>]

\* clearTimeout(timeout)
Cleared(t) == IF t = "armed" THEN "cleared" ELSE t

\* HashSet with the Set built from the entries' type tags instead of their hashes.
HashSet_OfTypes(window) == {window[k].type : k \in 1..Len(window)}

\* new Set(hederaLogs.map(l => l.hash))
HashSet(window) == {window[k].hash : k \in 1..Len(window)}

\* SomeHash looking only at the entries tagged PATIENT.
SomeHash_Patient(window, computed) ==
    \E k \in 1..Len(window) : window[k].hash = computed /\ window[k].type = "PATIENT"

\* hederaLogs.some(l => l.hash === computed)
SomeHash(window, computed) == \E k \in 1..Len(window) : window[k].hash = computed

\* POST /verify's answer
PointResult(type, id, valid, computed) ==
    [status |-> 200,
     body |-> [record |-> type, id |-> id, valid |-> valid, computedHash |-> computed]]

\* resolve(value), and what the awaiting handler does in the same turn: GET
\* /verify builds its Set and goes on to the store, POST /verify answers.  A
\* settled promise stays as it is.
Resolved(r, value) ==
    IF promise[r] # "pending"
    THEN UNCHANGED <<promise, hederaLogs, hederaHashes, pc, res>>
    ELSE /\ promise' = [promise EXCEPT ![r] = "resolved"]
         /\ hederaLogs' = [hederaLogs EXCEPT ![r] = value]
         /\ IF kind[r] = "getVerify"
            THEN /\ hederaHashes' = [hederaHashes EXCEPT ![r] = HashSet(value)]
                 /\ pc' = [pc EXCEPT ![r] = "find"]
                 /\ UNCHANGED res
            ELSE IF kind[r] = "getHederaHashes"
            THEN /\ pc' = [pc EXCEPT ![r] = "done"]
                 /\ UNCHANGED <<res, hederaHashes>>
            ELSE /\ res' = [res EXCEPT ![r] =
                              PointResult(Prop(body[r], "type").v, Prop(body[r], "id").v,
                                          SomeHash(value, hash[r]), hash[r])]
                 /\ pc' = [pc EXCEPT ![r] = "done"]
                 /\ UNCHANGED hederaHashes

\* Rejected with the error only logged: the promise is left pending.
Rejected_Swallowed(r) == UNCHANGED <<promise, pc, res>>

\* reject(error): the handler's catch block answers 500.
Rejected(r) ==
    IF promise[r] # "pending"
    THEN UNCHANGED <<promise, pc, res>>
    ELSE /\ promise' = [promise EXCEPT ![r] = "rejected"]
         /\ res' = [res EXCEPT ![r] = IF kind[r] = "getHederaHashes" THEN @
                                      ELSE Failed("Verification failed")]
         /\ pc' = [pc EXCEPT ![r] = "done"]

\* The subscription can make one more callback.
Deliverable(r) == sdk[r] = "open" /\ Len(delivered[r]) < MaxDeliver

\* getHederaHashes never releases its subscription, so its callbacks go on
\* after the promise is settled.  From then on they change nothing that is
\* read again: resolve and reject are without effect, the timer is spent, the
\* caller has already taken what it needs from logs.  They are left out.
Listening(r) == Verifying(r) /\ promise[r] = "pending" /\ Deliverable(r)

\* The message callback of getHederaHashes, called with entry i.
HashesMessage(r, i) ==
    /\ Listening(r)
    /\ i \in 1..Len(topic)
    /\ delivered' = [delivered EXCEPT ![r] = Append(@, [ch |-> "message", seq |-> i])]
    /\ IF Malformed(topic[i])
       THEN UNCHANGED <<logs, timeout, promise, hederaLogs, hederaHashes, pc, res>>
       ELSE LET pushed == Append(logs[r], [type |-> Part(topic[i], 1),
                                             hash |-> Part(topic[i], 2)])
            IN  /\ logs' = [logs EXCEPT ![r] = pushed]
                /\ IF AtLeast(Len(pushed), expectedCount[r])
                   THEN /\ timeout' = [timeout EXCEPT ![r] = Cleared(@)]
                        /\ Resolved(r, pushed)
                   ELSE UNCHANGED <<timeout, promise, hederaLogs, hederaHashes, pc, res>>
    /\ UNCHANGED <<topic, storeVars, started, reqVars, expectedCount, logsVars, sdk>>

\* The error callback of getHederaHashes, called with anything (seq 0: a
\* transport error; seq i: entry i arriving on this channel).
HashesError(r, i) ==
    /\ Listening(r)
    /\ i \in 0..Len(topic)
    /\ delivered' = [delivered EXCEPT ![r] = Append(@, [ch |-> "error", seq |-> i])]
    /\ timeout' = [timeout EXCEPT ![r] = Cleared(@)]
    /\ Rejected(r)
    /\ UNCHANGED <<topic, storeVars, started, reqVars, hashesVars, logsVars, sdk>>

\* HashesTimeout resolving with an empty array instead of logs.
HashesTimeout_Empty(r) ==
    /\ Verifying(r)
    /\ timeout[r] = "armed"
    /\ timeout' = [timeout EXCEPT ![r] = "fired"]
    /\ Resolved(r, <<>>)
    /\ UNCHANGED <<topic, storeVars, started, reqVars, expectedCount, logs, logsVars,
                   sdk, delivered>>

\* The timer of getHederaHashes fires: resolve(logs).
HashesTimeout(r) ==
    /\ Verifying(r)
    /\ timeout[r] = "armed"
    /\ timeout' = [timeout EXCEPT ![r] = "fired"]
    /\ Resolved(r, logs[r])
    /\ UNCHANGED <<topic, storeVars, started, reqVars, expectedCount, logs, logsVars,
                   sdk, delivered>>

\* ------------------------------------------------------------ verification
\* app.get("/verify"), to its await of getHederaHashes().
GetVerify(r) ==
    /\ Free(r)
    /\ Begin(r, "getVerify", <<>>, "replay")
    /\ StartHashes(r)
    /\ hash' = [hash EXCEPT ![r] = ""]
    /\ res' = [res EXCEPT ![r] = NoRes]
    /\ UNCHANGED <<topic, storeVars>>

PatientResult(p, hashes) ==
    [record |-> "patient", id |-> Prop(p, "_id").v,
     valid |-> hashData(PatientFields(p)) \in hashes,
     computedHash |-> hashData(PatientFields(p))]

OrganResult(o, hashes) ==
    [record |-> "organ", id |-> Prop(o, "_id").v,
     valid |-> hashData(OrganFields(o)) \in hashes,
     computedHash |-> hashData(OrganFields(o))]

\* The results array: the patients in the order found, then the organs.
Results(ps, os, hashes) ==
    [k \in 1..Len(ps) |-> PatientResult(ps[k], hashes)]
        \o [k \in 1..Len(os) |-> OrganResult(os[k], hashes)]

\* VerifyFind that also submits a message to the topic.
VerifyFind_Submits(r) ==
    /\ pc[r] = "find"
    /\ res' = [res EXCEPT ![r] =
                 [status |-> 200,
                  body |-> [results |-> Results(patients, organs, hederaHashes[r])]]]
    /\ pc' = [pc EXCEPT ![r] = "done"]
    /\ topic' = Append(topic, <<"hello">>)
    /\ UNCHANGED <<storeVars, started, reqVars, hashesVars, logsVars, timeout,
                   promise, sdk, delivered>>

\* Patient.find() and Organ.find() answer, res.json(results): the body is the
\* results array, held here in a field of its own.
VerifyFind(r) ==
    /\ pc[r] = "find"
    /\ res' = [res EXCEPT ![r] =
                 [status |-> 200,
                  body |-> [results |-> Results(patients, organs, hederaHashes[r])]]]
    /\ pc' = [pc EXCEPT ![r] = "done"]
    /\ UNCHANGED <<topic, storeVars, started, reqVars, hashesVars, logsVars, timeout,
                   promise, sdk, delivered>>

\* A find call rejects: 500.
VerifyFindFail(r) ==
    /\ pc[r] = "find"
    /\ res' = [res EXCEPT ![r] = Failed("Verification failed")]
    /\ pc' = [pc EXCEPT ![r] = "done"]
    /\ UNCHANGED <<topic, storeVars, started, reqVars, hashesVars, logsVars, timeout,
                   promise, sdk, delivered>>

\* Model.findById(id): the documents with this _id (one or none).
FindById(coll, id) == {k \in 1..Len(coll) : Prop(coll[k], "_id").v = id}

VerifyBody(type, id) == << <<"type", Str(type)>>, <<"id", Str(id)>> >>

\* app.post("/verify") with an unknown type: 400, before any await.
PostVerifyInvalidType(r, type, id) ==
    /\ Free(r)
    /\ type \notin {"patient", "organ"}
    /\ Begin(r, "postVerify", VerifyBody(type, id), "done")
    /\ NoReplay(r)
    /\ hash' = [hash EXCEPT ![r] = ""]
    /\ res' = [res EXCEPT ![r] = [status |-> 400, body |-> [error |-> "Invalid type specified"]]]
    /\ UNCHANGED <<topic, storeVars>>

\* app.post("/verify") with an id findById does not resolve: 404.
PostVerifyNotFound(r, type, id) ==
    /\ Free(r)
    /\ type \in {"patient", "organ"}
    /\ id \in ObjectIdText
    /\ FindById(IF type = "patient" THEN patients ELSE organs, id) = {}
    /\ Begin(r, "postVerify", VerifyBody(type, id), "done")
    /\ NoReplay(r)
    /\ hash' = [hash EXCEPT ![r] = ""]
    /\ res' = [res EXCEPT ![r] =
                 [status |-> 404,
                  body |-> [error |-> IF type = "patient" THEN "Patient not found"
                                      ELSE "Organ not found"]]]
    /\ UNCHANGED <<topic, storeVars>>

\* app.post("/verify") with an id that is no ObjectId: findById rejects with a
\* cast error and the catch block answers 500.
PostVerifyCastError(r, type, id) ==
    /\ Free(r)
    /\ type \in {"patient", "organ"}
    /\ id \notin ObjectIdText
    /\ Begin(r, "postVerify", VerifyBody(type, id), "done")
    /\ NoReplay(r)
    /\ hash' = [hash EXCEPT ![r] = ""]
    /\ res' = [res EXCEPT ![r] = Failed("Verification failed")]
    /\ UNCHANGED <<topic, storeVars>>

\* app.post("/verify") with a record found: computed is the hash of the stored
\* fields, then getHederaHashes() is awaited.
PostVerify(r, type, id) ==
    /\ Free(r)
    /\ type \in {"patient", "organ"}
    /\ \E k \in FindById(IF type = "patient" THEN patients ELSE organs, id) :
           hash' = [hash EXCEPT ![r] =
                      IF type = "patient" THEN hashData(PatientFields(patients[k]))
                      ELSE hashData(OrganFields(organs[k]))]
    /\ Begin(r, "postVerify", VerifyBody(type, id), "replay")
    /\ StartHashes(r)
    /\ res' = [res EXCEPT ![r] = NoRes]
    /\ UNCHANGED <<topic, storeVars>>

\* ----------------------------------------------------------------- GET /logs
\* cleanup(): unsubscribe when the handle is held, clear the timer.
Cleanup(r) ==
    /\ unsubscribed' = [unsubscribed EXCEPT ![r] = IF subscription[r] THEN @ + 1 ELSE @]
    /\ sdk' = [sdk EXCEPT ![r] = IF subscription[r] THEN "released" ELSE @]
    /\ timeout' = [timeout EXCEPT ![r] = Cleared(@)]

LogsAnswer(ms) ==
    [status |-> 200, body |-> [success |-> TRUE, count |-> Len(ms), messages |-> ms]]

LogsFailure ==
    [status |-> 500,
     body |-> [success |-> FALSE, error |-> "Failed to fetch logs",
               details |-> TransportError.error]]

\* resolve(), and the handler's next lines in the same turn: the messages are
\* sorted in place and sent.
LogsResolved(r, ms) ==
    IF promise[r] # "pending"
    THEN /\ messages' = [messages EXCEPT ![r] = ms]
         /\ UNCHANGED <<promise, pc, res>>
    ELSE /\ promise' = [promise EXCEPT ![r] = "resolved"]
         /\ messages' = [messages EXCEPT ![r] = SortMessages(ms)]
         /\ res' = [res EXCEPT ![r] = LogsAnswer(SortMessages(ms))]
         /\ pc' = [pc EXCEPT ![r] = "done"]

\* reject(err): the catch block answers 500.
LogsRejected(r) ==
    IF promise[r] # "pending"
    THEN UNCHANGED <<promise, pc, res>>
    ELSE /\ promise' = [promise EXCEPT ![r] = "rejected"]
         /\ res' = [res EXCEPT ![r] = LogsFailure]
         /\ pc' = [pc EXCEPT ![r] = "done"]

\* app.get("/logs"), to its await: the timer is armed and subscribe returns
\* the handle.
GetLogs(r) ==
    /\ Free(r)
    /\ Begin(r, "getLogs", <<>>, "replay")
    /\ timeout' = [timeout EXCEPT ![r] = "armed"]
    /\ promise' = [promise EXCEPT ![r] = "pending"]
    /\ sdk' = [sdk EXCEPT ![r] = "open"]
    /\ subscription' = [subscription EXCEPT ![r] = TRUE]
    /\ delivered' = [delivered EXCEPT ![r] = <<>>]
    /\ hash' = [hash EXCEPT ![r] = ""]
    /\ res' = [res EXCEPT ![r] = NoRes]
    /\ UNCHANGED <<topic, storeVars>>

\* app.get("/logs") when the error callback is called inside subscribe, before
\* the handle is returned: onError finds no handle to release, clears the
\* timer and rejects; subscribe then returns the handle; the catch block
\* answers 500.
GetLogsSyncError(r) ==
    /\ Free(r)
    /\ Begin(r, "getLogs", <<>>, "done")
    /\ timeout' = [timeout EXCEPT ![r] = "cleared"]
    /\ promise' = [promise EXCEPT ![r] = "rejected"]
    /\ sdk' = [sdk EXCEPT ![r] = "open"]
    /\ subscription' = [subscription EXCEPT ![r] = TRUE]
    /\ delivered' = [delivered EXCEPT ![r] = <<[ch |-> "error", seq |-> 0]>>]
    /\ hash' = [hash EXCEPT ![r] = ""]
    /\ res' = [res EXCEPT ![r] = LogsFailure]
    /\ UNCHANGED <<topic, storeVars>>

Logging(r) == kind[r] = "getLogs"

\* HandleMessage with one Set of seen sequence numbers for all requests.
HandleMessage_SharedSeen(r, msg) ==
    IF \E q \in Req : SeqText(msg.sequenceNumber) \in seenSequenceNumbers[q]
    THEN UNCHANGED <<seenSequenceNumbers, messages>>
    ELSE /\ seenSequenceNumbers' =
                [seenSequenceNumbers EXCEPT ![r] = @ \cup {SeqText(msg.sequenceNumber)}]
         /\ messages' = [messages EXCEPT ![r] = Append(@, parseTopicMessage(msg))]

\* handleMessage(msg): a sequence number seen before is skipped, a new one is
\* remembered and the parsed message pushed.
HandleMessage(r, msg) ==
    IF SeqText(msg.sequenceNumber) \in seenSequenceNumbers[r]
    THEN UNCHANGED <<seenSequenceNumbers, messages>>
    ELSE /\ seenSequenceNumbers' =
                [seenSequenceNumbers EXCEPT ![r] = @ \cup {SeqText(msg.sequenceNumber)}]
         /\ messages' = [messages EXCEPT ![r] = Append(@, parseTopicMessage(msg))]

\* Entry i arrives, on the message callback or (msgOrError.contents is set)
\* on the error callback: both hand it to handleMessage.
LogsMessage(r, i, ch) ==
    /\ Logging(r) /\ Deliverable(r)
    /\ i \in 1..Len(topic)
    /\ delivered' = [delivered EXCEPT ![r] = Append(@, [ch |-> ch, seq |-> i])]
    /\ HandleMessage(r, TopicMessage(i, topic[i]))
    /\ UNCHANGED <<topic, storeVars, started, pc, res, reqVars, hashesVars, timeout,
                   promise, subscription, sdk, unsubscribed>>

\* The error callback is called with something that is no entry: onError.
LogsError(r) ==
    /\ Logging(r) /\ Deliverable(r)
    /\ delivered' = [delivered EXCEPT ![r] = Append(@, [ch |-> "error", seq |-> 0])]
    /\ Cleanup(r)
    /\ LogsRejected(r)
    /\ UNCHANGED <<topic, storeVars, started, reqVars, hashesVars, messages,
                   seenSequenceNumbers, subscription>>

\* The completion callback: onComplete.
LogsComplete(r) ==
    /\ Logging(r) /\ Deliverable(r)
    /\ delivered' = [delivered EXCEPT ![r] = Append(@, [ch |-> "complete", seq |-> 0])]
    /\ Cleanup(r)
    /\ LogsResolved(r, messages[r])
    /\ UNCHANGED <<topic, storeVars, started, reqVars, hashesVars,
                   seenSequenceNumbers, subscription>>

\* The 10 s timer fires: onComplete.
LogsTimeout(r) ==
    /\ Logging(r)
    /\ timeout[r] = "armed"
    /\ unsubscribed' = [unsubscribed EXCEPT ![r] = IF subscription[r] THEN @ + 1 ELSE @]
    /\ sdk' = [sdk EXCEPT ![r] = IF subscription[r] THEN "released" ELSE @]
    /\ timeout' = [timeout EXCEPT ![r] = "fired"]
    /\ LogsResolved(r, messages[r])
    /\ UNCHANGED <<topic, storeVars, started, reqVars, hashesVars,
                   seenSequenceNumbers, subscription, delivered>>

\* --------------------------------------- GET /logs of the server without a store
\* app.get("/logs") of src/unnamed/part_002, to its await: the query is
\* subscribed, the handle kept, and a 5 s timer armed.
OldGetLogs(r) ==
    /\ Free(r)
    /\ Begin(r, "oldGetLogs", <<>>, "replay")
    /\ timeout' = [timeout EXCEPT ![r] = "armed"]
    /\ promise' = [promise EXCEPT ![r] = "pending"]
    /\ sdk' = [sdk EXCEPT ![r] = "open"]
    /\ subscription' = [subscription EXCEPT ![r] = TRUE]
    /\ delivered' = [delivered EXCEPT ![r] = <<>>]
    /\ hash' = [hash EXCEPT ![r] = ""]
    /\ res' = [res EXCEPT ![r] = NoRes]
    /\ UNCHANGED <<topic, storeVars>>

OldLogging(r) == kind[r] = "oldGetLogs"

\* Entry i arrives on either callback: a sequence number seen before is
\* skipped, a new one is remembered and the parsed message pushed.
OldLogsMessage(r, i, ch) ==
    /\ OldLogging(r) /\ Deliverable(r)
    /\ i \in 1..Len(topic)
    /\ delivered' = [delivered EXCEPT ![r] = Append(@, [ch |-> ch, seq |-> i])]
    /\ HandleMessage(r, TopicMessage(i, topic[i]))
    /\ UNCHANGED <<topic, storeVars, started, pc, res, reqVars, hashesVars, timeout,
                   promise, subscription, sdk, unsubscribed>>

\* The second callback is called with something that is no entry: it is
\* written to the console and nothing else happens.
OldLogsError(r) ==
    /\ OldLogging(r) /\ Deliverable(r)
    /\ delivered' = [delivered EXCEPT ![r] = Append(@, [ch |-> "error", seq |-> 0])]
    /\ UNCHANGED <<topic, storeVars, started, pc, res, reqVars, hashesVars, logsVars,
                   timeout, promise, sdk>>

\* The 5 s timer fires: unsubscribe, resolve; the messages are sorted and sent.
OldLogsTimeout(r) ==
    /\ OldLogging(r)
    /\ timeout[r] = "armed"
    /\ unsubscribed' = [unsubscribed EXCEPT ![r] = @ + 1]
    /\ sdk' = [sdk EXCEPT ![r] = "released"]
    /\ timeout' = [timeout EXCEPT ![r] = "fired"]
    /\ LogsResolved(r, messages[r])
    /\ UNCHANGED <<topic, storeVars, started, reqVars, hashesVars,
                   seenSequenceNumbers, subscription, delivered>>

\* ------------------------------------------------------------ specification
Next ==
    \/ \E r \in Serial, b \in PatientBodies : PostPatients(r, b)
    \/ \E r \in Serial, b \in OrganBodies : PostOrgans(r, b)
    \/ \E r \in Serial : SubmitOk(r)
    \/ \E r \in Serial : SubmitFail(r)
    \/ \E r \in Serial : CreatePatient(r)
    \/ \E r \in Serial : CreateOrgan(r)
    \/ \E r \in Serial : CreateFail(r)
    \/ \E c \in ForeignContents : ForeignSubmit(c)
    \/ \E i \in 1..MaxTopic : TamperPatient(i)
    \/ \E i \in 1..MaxTopic : TamperOrgan(i)
    \/ \E r \in Serial : GetVerify(r)
    \/ \E r \in Serial, t \in VerifyTypes, id \in VerifyIds : PostVerifyInvalidType(r, t, id)
    \/ \E r \in Serial, t \in VerifyTypes, id \in VerifyIds : PostVerifyNotFound(r, t, id)
    \/ \E r \in Serial, t \in VerifyTypes, id \in VerifyIds : PostVerify(r, t, id)
    \/ \E r \in Serial, i \in 1..MaxTopic : HashesMessage(r, i)
    \/ \E r \in Serial, i \in 0..MaxTopic : HashesError(r, i)
    \/ \E r \in Serial : HashesTimeout(r)
    \/ \E r \in Serial : VerifyFind(r)
    \/ \E r \in Serial : VerifyFindFail(r)
    \/ \E r \in Serial : GetLogs(r)
    \/ \E r \in Serial : GetLogsSyncError(r)
    \/ \E r \in Serial, i \in 1..MaxTopic, ch \in {"message", "error"} : LogsMessage(r, i, ch)
    \/ \E r \in Serial : LogsError(r)
    \/ \E r \in Serial : LogsComplete(r)
    \/ \E r \in Serial : LogsTimeout(r)
    \/ \E r \in Serial, b \in OldPatientBodies : OldPostPatients(r, b)
    \/ \E r \in Serial : OldSubmitOk(r)
    \/ \E r \in Serial, t \in VerifyTypes, id \in VerifyIds : PostVerifyCastError(r, t, id)
    \/ \E r \in Serial : OldGetLogs(r)
    \/ \E r \in Serial, i \in 1..MaxTopic, ch \in {"message", "error"} : OldLogsMessage(r, i, ch)
    \/ \E r \in Serial : OldLogsError(r)
    \/ \E r \in Serial : OldLogsTimeout(r)

Spec == Init /\ [][Next]_vars

\* ------------------------------------------------------------ the read path
\* The read path alone, started from a topic and a store as earlier requests
\* and other clients of the ledger can have left them: messages with and
\* without a separator on the topic, and the patient of an accepted create request once its anchor is
\* among them.
InitialContents == {<<"hello">>, AnchorMessage("PATIENT", hashData(PatientFields(Alice30)))}

InitialTopics == UNION {[1..n -> InitialContents] : n \in 0..MaxTopic}

Anchored(t, b) ==
    \E i \in 1..Len(t) : t[i] = AnchorMessage("PATIENT", hashData(PatientFields(b)))

ReadFrom(topics) ==
    /\ topic \in topics
    /\ patients \in {<<>>} \cup (IF Anchored(topic, Alice30)
                                  THEN {<<PatientDoc(Alice30, 1)>>} ELSE {})
    /\ organs = <<>>
    /\ nextId = Len(patients) + 1
    /\ modified = {}
    /\ anchorOf = [id \in {ToString(k) : k \in 1..Len(patients)} |->
                      hashData(PatientFields(Alice30))]
    /\ started = 0
    /\ kind = [r \in Req |-> "none"]
    /\ pc = [r \in Req |-> "idle"]
    /\ body = [r \in Req |-> <<>>]
    /\ hash = [r \in Req |-> ""]
    /\ txId = [r \in Req |-> 0]
    /\ res = [r \in Req |-> NoRes]
    /\ expectedCount = [r \in Req |-> Infinity]
    /\ logs = [r \in Req |-> <<>>]
    /\ hederaLogs = [r \in Req |-> <<>>]
    /\ hederaHashes = [r \in Req |-> {}]
    /\ messages = [r \in Req |-> <<>>]
    /\ seenSequenceNumbers = [r \in Req |-> {}]
    /\ timeout = [r \in Req |-> "none"]
    /\ promise = [r \in Req |-> "none"]
    /\ subscription = [r \in Req |-> FALSE]
    /\ sdk = [r \in Req |-> "none"]
    /\ unsubscribed = [r \in Req |-> 0]
    /\ delivered = [r \in Req |-> <<>>]

ReadInit == ReadFrom(InitialTopics)

ReadNext ==
    \/ \E r \in Serial : GetVerify(r)
    \/ \E r \in Serial, t \in VerifyTypes, id \in VerifyIds : PostVerifyInvalidType(r, t, id)
    \/ \E r \in Serial, t \in VerifyTypes, id \in VerifyIds : PostVerifyNotFound(r, t, id)
    \/ \E r \in Serial, t \in VerifyTypes, id \in VerifyIds : PostVerify(r, t, id)
    \/ \E r \in Serial, i \in 1..MaxTopic : HashesMessage(r, i)
    \/ \E r \in Serial, i \in 0..MaxTopic : HashesError(r, i)
    \/ \E r \in Serial : HashesTimeout(r)
    \/ \E r \in Serial : VerifyFind(r)
    \/ \E r \in Serial : VerifyFindFail(r)
    \/ \E r \in Serial : GetLogs(r)
    \/ \E r \in Serial : GetLogsSyncError(r)
    \/ \E r \in Serial, i \in 1..MaxTopic, ch \in {"message", "error"} : LogsMessage(r, i, ch)
    \/ \E r \in Serial : LogsError(r)
    \/ \E r \in Serial : LogsComplete(r)
    \/ \E r \in Serial : LogsTimeout(r)
    \/ \E r \in Serial, t \in VerifyTypes, id \in VerifyIds : PostVerifyCastError(r, t, id)
    \/ \E r \in Serial : OldGetLogs(r)
    \/ \E r \in Serial, i \in 1..MaxTopic, ch \in {"message", "error"} : OldLogsMessage(r, i, ch)
    \/ \E r \in Serial : OldLogsError(r)
    \/ \E r \in Serial : OldLogsTimeout(r)

\* The timers are fair: an armed timer that is not cleared fires.
FairReadSpec ==
    /\ ReadInit
    /\ [][ReadNext]_vars
    /\ \A r \in Req : /\ WF_vars(HashesTimeout(r))
                      /\ WF_vars(LogsTimeout(r))
                      /\ WF_vars(OldLogsTimeout(r))

\* ------------------------------------------------- getHederaHashes with a count
\* getHederaHashes(n) called on its own with a count: no handler passes one,
\* so the stop condition of the function is exercised by calling it directly.
CallGetHederaHashes(r, n) ==
    /\ Free(r)
    /\ started' = started + 1
    /\ kind' = [kind EXCEPT ![r] = "getHederaHashes"]
    /\ body' = [body EXCEPT ![r] = <<>>]
    /\ pc' = [pc EXCEPT ![r] = "replay"]
    /\ txId' = [txId EXCEPT ![r] = 0]
    /\ logs' = [logs EXCEPT ![r] = <<>>]
    /\ hederaLogs' = [hederaLogs EXCEPT ![r] = <<>>]
    /\ hederaHashes' = [hederaHashes EXCEPT ![r] = {}]
    /\ messages' = [messages EXCEPT ![r] = <<>>]
    /\ seenSequenceNumbers' = [seenSequenceNumbers EXCEPT ![r] = {}]
    /\ unsubscribed' = [unsubscribed EXCEPT ![r] = 0]
    /\ expectedCount' = [expectedCount EXCEPT ![r] = Count(n)]
    /\ StartHashes(r)
    /\ hash' = [hash EXCEPT ![r] = ""]
    /\ res' = [res EXCEPT ![r] = NoRes]
    /\ UNCHANGED <<topic, storeVars>>

CountingNext ==
    \/ \E r \in Serial, n \in 1..MaxTopic : CallGetHederaHashes(r, n)
    \/ \E r \in Serial, i \in 1..MaxTopic : HashesMessage(r, i)
    \/ \E r \in Serial, i \in 0..MaxTopic : HashesError(r, i)
    \/ \E r \in Serial : HashesTimeout(r)

CountingSpec == ReadInit /\ [][CountingNext]_vars

\* ------------------------------------------------------ concurrent replays
\* Two requests of the read path in flight at once: every await of a handler
\* lets the callbacks and timers of the other run.
ConcurrentNext ==
    \/ \E r \in Req : GetVerify(r)
    \/ \E r \in Req : GetLogs(r)
    \/ \E r \in Req, i \in 1..MaxTopic : HashesMessage(r, i)
    \/ \E r \in Req, i \in 1..MaxTopic : LogsMessage(r, i, "message")
    \/ \E r \in Req : HashesTimeout(r)
    \/ \E r \in Req : LogsTimeout(r)
    \/ \E r \in Req : VerifyFind(r)

\* The store plays no part in a replay: it starts empty here.
ConcurrentInit == ReadInit /\ patients = <<>>

ConcurrentSpec == ConcurrentInit /\ [][ConcurrentNext]_vars

\* ------------------------------------------------------ two verifications
\* Two verifications of the stored patient in flight over a topic that holds
\* the patient's hash under its own type tag and, submitted by another client
\* of the ledger, under the other one.
VerdictContents ==
    {AnchorMessage("PATIENT", hashData(PatientFields(Alice30))),
     AnchorMessage("ORGAN", hashData(PatientFields(Alice30)))}

VerdictInit ==
    /\ ReadFrom(UNION {[1..n -> VerdictContents] : n \in 1..MaxTopic})
    /\ patients # <<>>

VerdictNext ==
    \/ \E r \in Req : GetVerify(r)
    \/ \E r \in Req, id \in VerifyIds : PostVerify(r, "patient", id)
    \/ \E r \in Req, i \in 1..MaxTopic : HashesMessage(r, i)
    \/ \E r \in Req : HashesTimeout(r)
    \/ \E r \in Req : VerifyFind(r)

VerdictSpec == VerdictInit /\ [][VerdictNext]_vars

\* ------------------------------------------------------------------ properties
BulkDone(r) == kind[r] = "getVerify" /\ pc[r] = "done" /\ res[r].status = 200
PointDone(r) == kind[r] = "postVerify" /\ pc[r] = "done" /\ res[r].status = 200
LogsDone(r) == kind[r] = "getLogs" /\ pc[r] = "done" /\ res[r].status = 200
Ended(r) == promise[r] \in {"resolved", "rejected"}

\* The sequence numbers the subscription of slot r has delivered as entries.
DeliveredSeqs(r) ==
    {delivered[r][k].seq : k \in {j \in 1..Len(delivered[r]) : delivered[r][j].seq > 0}}

\* The replay of slot r has been handed every entry of the topic.
SawWholeTopic(r) == \A i \in 1..Len(topic) : i \in DeliveredSeqs(r)

\* The hashes anchored on the topic.
TopicHashes == {Part(topic[i], 2) : i \in {j \in 1..Len(topic) : ~Malformed(topic[j])}}

\* The sequence numbers of the entries of the window getHederaHashes returned,
\* in the window's order: the well-formed entries the message callback got.
WindowSeqs(r) ==
    LET Kept(d) == d.ch = "message" /\ ~Malformed(topic[d.seq])
        kept == SelectSeq(delivered[r], Kept)
    IN  [k \in 1..Len(hederaLogs[r]) |-> kept[k].seq]

\* A result that says its replay was cut off / was complete.
SaysComplete(result, flag) ==
    "replayComplete" \in DOMAIN result /\ result.replayComplete = flag

\* ------------------------------------------- replays the ledger serves in full
\* The replays of src/test.js over a ledger that hands every entry of the
\* topic to the subscription at least once, with a deadline that is long
\* enough for it: the timer fires, and the stream completes, only after the
\* last entry was handed over.  A subscription makes at most MaxDeliver
\* callbacks, so a repeated delivery is made only while enough callbacks are
\* left for the entries not yet delivered.
Undelivered(r) == {j \in 1..Len(topic) : j \notin DeliveredSeqs(r)}

Budget(r, i) ==
    Len(delivered[r]) + 1 + Cardinality(Undelivered(r) \ {i}) <= MaxDeliver

HashesDelivery(r, i) == Budget(r, i) /\ HashesMessage(r, i)

HashesDeadline(r) == Undelivered(r) = {} /\ HashesTimeout(r)

LogsDelivery(r, i, ch) == Budget(r, i) /\ LogsMessage(r, i, ch)

LogsCompleteAfterAll(r) == Undelivered(r) = {} /\ LogsComplete(r)

LogsDeadline(r) == Undelivered(r) = {} /\ LogsTimeout(r)

DeliveryNext ==
    \/ \E r \in Serial : GetVerify(r)
    \/ \E r \in Serial, t \in VerifyTypes, id \in VerifyIds : PostVerify(r, t, id)
    \/ \E r \in Serial, i \in 1..MaxTopic : HashesDelivery(r, i)
    \/ \E r \in Serial, i \in 0..MaxTopic : HashesError(r, i)
    \/ \E r \in Serial : HashesDeadline(r)
    \/ \E r \in Serial : VerifyFind(r)
    \/ \E r \in Serial : GetLogs(r)
    \/ \E r \in Serial, i \in 1..MaxTopic, ch \in {"message", "error"} : LogsDelivery(r, i, ch)
    \/ \E r \in Serial : LogsError(r)
    \/ \E r \in Serial : LogsCompleteAfterAll(r)
    \/ \E r \in Serial : LogsDeadline(r)

\* The ledger goes on delivering while an entry is undelivered, and the timers
\* are fair.
DeliverySpec ==
    /\ ReadInit
    /\ [][DeliveryNext]_vars
    /\ \A r \in Req :
          /\ WF_vars(\E i \in 1..MaxTopic : i \in Undelivered(r) /\ HashesDelivery(r, i))
          /\ WF_vars(\E i \in 1..MaxTopic : i \in Undelivered(r) /\ LogsDelivery(r, i, "message"))
          /\ WF_vars(HashesDeadline(r))
          /\ WF_vars(LogsDeadline(r))

\* C1: when GET /verify answers, its results are the stored patients followed
\* by the stored organs, one result each and no record twice, and a result is
\* valid exactly when the hash of the record's stored fields is the hash of an
\* entry of the window the replay returned.
C1_BulkVerifyResults ==
    [][\A r \in Req :
          (pc[r] = "find" /\ pc'[r] = "done" /\ res'[r].status = 200) =>
             LET out == res'[r].body.results
                 np == Len(patients)
                 InWindow(h) == \E j \in 1..Len(hederaLogs[r]) : hederaLogs[r][j].hash = h
             IN  /\ Len(out) = np + Len(organs)
                 /\ \A k \in 1..np :
                        /\ out[k].record = "patient"
                        /\ out[k].id = Prop(patients[k], "_id").v
                        /\ out[k].valid <=> InWindow(hashData(PatientFields(patients[k])))
                 /\ \A k \in 1..Len(organs) :
                        /\ out[np + k].record = "organ"
                        /\ out[np + k].id = Prop(organs[k], "_id").v
                        /\ out[np + k].valid <=> InWindow(hashData(OrganFields(organs[k])))
                 /\ \A a, b \in 1..Len(out) : a # b => out[a].id # out[b].id]_vars

\* C1 witness: a bulk verification has answered for a stored record whose hash
\* was in the window it replayed.
C1_Witness ==
    \E r \in Req :
        /\ BulkDone(r)
        /\ hederaLogs[r] # <<>>
        /\ \E k \in 1..Len(res[r].body.results) : res[r].body.results[k].valid

\* C2: a record stored by an accepted create request and not modified since is
\* reported valid by every bulk verification whose window holds the hash that
\* request anchored.
C2_AcceptedRecordVerifies ==
    \A r \in Req :
        BulkDone(r) =>
            \A k \in 1..Len(res[r].body.results) :
                LET id == res[r].body.results[k].id
                IN  (/\ id \in DOMAIN anchorOf
                     /\ id \notin modified
                     /\ \E j \in 1..Len(hederaLogs[r]) : hederaLogs[r][j].hash = anchorOf[id])
                        => res[r].body.results[k].valid

\* C3: a record whose fields were changed after anchoring, the new hash never
\* anchored, is reported valid=false with replayComplete=true by a bulk
\* verification whose replay saw the whole topic.
C3_TamperedReportedComplete ==
    \A r \in Req :
        (BulkDone(r) /\ SawWholeTopic(r)) =>
            \A k \in 1..Len(res[r].body.results) :
                (/\ res[r].body.results[k].id \in modified
                 /\ res[r].body.results[k].computedHash \notin TopicHashes)
                    => (~res[r].body.results[k].valid /\ SaysComplete(res[r].body.results[k], TRUE))

\* C4: a verification result that is valid=false after a replay cut off by
\* its deadline carries replayComplete=false.
C4_InconclusiveIsMarked ==
    \A r \in Req :
        /\ (PointDone(r) /\ timeout[r] = "fired" /\ ~res[r].body.valid)
              => SaysComplete(res[r].body, FALSE)
        /\ (BulkDone(r) /\ timeout[r] = "fired")
              => \A k \in 1..Len(res[r].body.results) :
                     ~res[r].body.results[k].valid => SaysComplete(res[r].body.results[k], FALSE)

\* C5: once an entry with the record's hash has been delivered to a point
\* verification, the request has answered valid=true and the timer was
\* cleared, not waited for.
C5_PointStopsOnMatch ==
    \A r \in Req :
        (/\ kind[r] = "postVerify"
         /\ \E k \in 1..Len(delivered[r]) :
                /\ delivered[r][k].ch = "message"
                /\ Part(topic[delivered[r][k].seq], 2) = hash[r])
            => (PointDone(r) /\ res[r].body.valid /\ timeout[r] = "cleared")

\* C6: the window a replay returns holds at most one entry per sequence
\* number delivered to it.
C6_OneEntryPerSequenceNumber ==
    \A r \in Req :
        /\ (Verifying(r) /\ promise[r] = "resolved")
              => Len(hederaLogs[r]) <= Cardinality(DeliveredSeqs(r))
        /\ LogsDone(r)
              => \A a, b \in 1..Len(res[r].body.messages) :
                     a # b => res[r].body.messages[a].sequenceNumber
                                 # res[r].body.messages[b].sequenceNumber

\* C7: the window a replay returns is in ascending order of sequence number.
C7_WindowSorted ==
    \A r \in Req :
        /\ (Verifying(r) /\ promise[r] = "resolved")
              => \A a, b \in 1..Len(hederaLogs[r]) :
                     a < b => WindowSeqs(r)[a] <= WindowSeqs(r)[b]
        /\ LogsDone(r)
              => \A a, b \in 1..Len(res[r].body.messages) :
                     a < b => parseInt(res[r].body.messages[a].sequenceNumber)
                                 <= parseInt(res[r].body.messages[b].sequenceNumber)

\* C8: a replay that has ended has released its subscription exactly once.
C8_ReleasedExactlyOnce ==
    \A r \in Req : Ended(r) => unsubscribed[r] = 1

\* C9: a replay ended by its deadline before the whole topic was delivered has
\* resolved, not failed, with the entries collected so far, and its result is
\* tagged incomplete.
C9_DeadlineReturnsTaggedPartial ==
    \A r \in Req :
        (timeout[r] = "fired" /\ ~SawWholeTopic(r)) =>
            /\ promise[r] = "resolved"
            /\ Verifying(r) => hederaLogs[r] = logs[r]
            /\ PointDone(r) => SaysComplete(res[r].body, FALSE)
            /\ BulkDone(r) => \A k \in 1..Len(res[r].body.results) :
                                  SaysComplete(res[r].body.results[k], FALSE)
            /\ LogsDone(r) => /\ res[r].body.messages = messages[r]
                              /\ SaysComplete(res[r].body, FALSE)

\* C10: under fair timers every replay that is pending is eventually resolved
\* or rejected.
C10_ReplayEnds ==
    \A r \in Req : (promise[r] = "pending") ~> Ended(r)

\* C10 witness: a replay over a topic that holds entries was ended by its timer
\* alone: the ledger delivered nothing, completed nothing, reported no error.
C10_Witness ==
    \E r \in Req :
        /\ promise[r] = "resolved" /\ timeout[r] = "fired" /\ delivered[r] = <<>>
        /\ Len(topic) > 0

\* The contents of an entry hold no separator.
NoSeparator(content) == \A k \in 1..Len(content) : content[k] # Sep

\* The deliveries to slot r, on the message callback, of entries with a separator.
SeparatedDeliveries(ds, t) ==
    {k \in 1..Len(ds) : ds[k].ch = "message" /\ ~NoSeparator(t[ds[k].seq])}

\* C11: when an entry without a separator is handed to the message callback of
\* a replay, nothing is added to the decoded set and the replay neither ends
\* nor fails; a well-formed entry handed to it, also after such an entry, is
\* added; the decoded set never holds more entries than deliveries of entries
\* with a separator.
C11_MalformedSkipped ==
    [][\A r \in Req :
          (/\ Len(delivered'[r]) = Len(delivered[r]) + 1
           /\ delivered'[r][Len(delivered'[r])].ch = "message") =>
             LET c == topic[delivered'[r][Len(delivered'[r])].seq]
             IN  /\ NoSeparator(c) =>
                       /\ promise'[r] = promise[r] /\ pc'[r] = pc[r] /\ res'[r] = res[r]
                       /\ Verifying(r) => (logs'[r] = logs[r] /\ timeout'[r] = timeout[r])
                 /\ (Verifying(r) /\ ~NoSeparator(c) /\ Part(c, 1) # "" /\ Part(c, 2) # "") =>
                       logs'[r] = Append(logs[r], [type |-> Part(c, 1), hash |-> Part(c, 2)])
                 /\ Verifying(r) =>
                       Len(logs'[r]) <= Cardinality(SeparatedDeliveries(delivered'[r], topic'))]_vars

\* C11 witness: a replay was handed an entry without a separator and then a
\* well-formed one, and resolved with the second alone.
C11_Witness ==
    \E r \in Req :
        /\ Verifying(r) /\ promise[r] = "resolved"
        /\ Len(delivered[r]) = 2
        /\ delivered[r][1].ch = "message" /\ delivered[r][2].ch = "message"
        /\ NoSeparator(topic[delivered[r][1].seq])
        /\ ~NoSeparator(topic[delivered[r][2].seq])
        /\ Len(hederaLogs[r]) = 1
        /\ hederaLogs[r][1].hash = Part(topic[delivered[r][2].seq], 2)

\* The subscription of slot r has reported a failure: its error callback was
\* called with something that is no entry.
FailureDelivered(r) ==
    \E k \in 1..Len(delivered[r]) : delivered[r][k].ch = "error" /\ delivered[r][k].seq = 0

\* C12: a request whose replay was reported a transport failure has answered
\* 500 and its replay has failed, and a replay ended by its timer without any
\* such report has resolved.
C12_TransportFailureSurfaced ==
    \A r \in Req :
        /\ (pc[r] = "done" /\ FailureDelivered(r))
              => (promise[r] = "rejected" /\ res[r].status = 500)
        /\ (timeout[r] = "fired" /\ ~FailureDelivered(r)) => promise[r] = "resolved"

\* C13: an entry handed to the error callback of a replay is collected as it
\* would be from the message callback, and a replay fails only when it was
\* handed something that is no entry.
C13_ClassifiedByShape ==
    \A r \in Req :
        /\ promise[r] = "rejected" => FailureDelivered(r)
        /\ \A k \in 1..Len(delivered[r]) :
              (delivered[r][k].ch = "error" /\ delivered[r][k].seq > 0) =>
                 /\ (Logging(r) \/ OldLogging(r))
                        => SeqText(delivered[r][k].seq) \in seenSequenceNumbers[r]
                 /\ (Verifying(r) /\ ~Malformed(topic[delivered[r][k].seq]))
                        => \E j \in 1..Len(logs[r]) :
                               logs[r][j].hash = Part(topic[delivered[r][k].seq], 2)

\* The window slot r's replay resolved with holds the entry (type, h) that
\* the anchor message at position i of the topic carries.
WindowHolds(r, i) ==
    IF Verifying(r)
    THEN \E j \in 1..Len(hederaLogs[r]) :
             hederaLogs[r][j] = [type |-> topic[i][1], hash |-> topic[i][3]]
    ELSE \E j \in 1..Len(messages[r]) :
             /\ messages[r][j].sequenceNumber = SeqText(i)
             /\ messages[r][j].message = topic[i][1] \o "|" \o topic[i][3]

\* The positions of the topic that hold an anchor message type|hash.
AnchorPositions ==
    {i \in 1..Len(topic) : Len(topic[i]) = 3 /\ topic[i][2] = Sep}

\* C14: over a ledger that delivers every entry, with a deadline long enough,
\* a replay from the topic origin that is pending eventually fails with a
\* transport error or resolves with a window that holds the entry (type, h) of
\* every anchor message submitted to the topic.
C14_AnchoredEntryReplayed ==
    \A r \in Req :
        (promise[r] = "pending") ~>
            \/ promise[r] = "rejected"
            \/ promise[r] = "resolved" /\ \A i \in AnchorPositions : WindowHolds(r, i)

\* C14 witness: a replay resolved with a window that holds the entry of the
\* anchor a create request submitted for Alice.
C14_Witness ==
    \E r \in Req :
        /\ Verifying(r) /\ promise[r] = "resolved"
        /\ \E i \in AnchorPositions :
              /\ topic[i] = AnchorMessage("PATIENT", hashData(PatientFields(Alice30)))
              /\ WindowHolds(r, i)

\* The hash the handler of kind k gives a request body b.
HashGiven(k, b) ==
    IF k = "oldPostPatients" THEN hashData(b)
    ELSE IF k = "postPatients" THEN hashData(PatientFields(b))
    ELSE hashData(OrganFields(b))

\* Two bodies of a create request of kind k with equal semantic field values.
SameRecord(k, a, b) ==
    IF k = "postOrgans" THEN OrganFields(a) = OrganFields(b)
    ELSE PatientFields(a) = PatientFields(b)

\* C15: the hash a create request gives its record is the hash its handler
\* gives every record with the same semantic field values, whatever the order
\* of the fields and whatever other fields there are.
C15_HashOfSemanticFieldsOnly ==
    \A r \in Req :
        kind[r] \in {"postPatients", "postOrgans", "oldPostPatients"} =>
            \A b \in PatientBodies \cup OrganBodies :
                SameRecord(kind[r], body[r], b) => hash[r] = HashGiven(kind[r], b)

\* Slot r runs a create request of the server with a store.
Creating(r) == kind[r] \in {"postPatients", "postOrgans"}

\* The submission of slot r's request has succeeded: the ledger returned an
\* identifier and the topic holds the request's anchor message under it.
Submitted(r) ==
    /\ txId[r] \in 1..Len(topic)
    /\ topic[txId[r]] = <<TypeTag(kind[r]), "|", hash[r]>>

\* C16: when a create request answers, the answer is 201 if its submission has
\* succeeded and this step writes its record to the store, and 500 otherwise;
\* the 201 answer carries the hash of the anchor message the request submitted,
\* the identifier the submission returned, and the document stored.
C16_CreateAnswers ==
    [][\A r \in Req :
          (Creating(r) /\ pc[r] # "done" /\ pc'[r] = "done") =>
             IF Submitted(r) /\ (patients' # patients \/ organs' # organs)
             THEN /\ res'[r].status = 201
                  /\ res'[r].body.hash = topic[txId[r]][3]
                  /\ res'[r].body.transactionId = txId[r]
                  /\ kind[r] = "postPatients" =>
                        patients' = Append(patients, res'[r].body.patient)
                  /\ kind[r] = "postOrgans" =>
                        organs' = Append(organs, res'[r].body.organ)
             ELSE /\ res'[r].status = 500
                  /\ patients' = patients /\ organs' = organs]_vars

\* C16 witness: a create request has answered 201 with the hash of its anchor
\* message after its record was stored.
C16_Witness ==
    \E r \in Req :
        /\ Creating(r) /\ pc[r] = "done" /\ res[r].status = 201
        /\ Submitted(r)
        /\ res[r].body.hash = hash[r]
        /\ Len(patients) + Len(organs) > 0

\* The store holds the record of slot r's create request.
HeldLocally(r) ==
    IF kind[r] = "postPatients"
    THEN \E k \in 1..Len(patients), id \in 1..nextId : patients[k] = PatientDoc(body[r], id)
    ELSE \E k \in 1..Len(organs), id \in 1..nextId : organs[k] = OrganDoc(body[r], id)

\* C17: a create request whose ledger submission failed has answered with a
\* 5xx status and its record is in the store.
C17_FailedAnchorKeepsRecord ==
    \A r \in Req :
        (Creating(r) /\ pc[r] = "done" /\ txId[r] = 0) =>
            (res[r].status >= 500 /\ HeldLocally(r))

\* A patient body with a required field missing or of the wrong type.
InvalidPatient(b) ==
    \/ Prop(b, "name").k # "string"
    \/ Prop(b, "bloodType").k # "string"
    \/ Prop(b, "age").k # "number"

\* C18: a create request whose body has a required field missing or of the
\* wrong type produces no hash, submits nothing and stores nothing, and is
\* not accepted.
C18_InvalidRecordRejected ==
    \A r \in Req :
        (kind[r] = "postPatients" /\ InvalidPatient(body[r])) =>
            /\ hash[r] = ""
            /\ txId[r] = 0
            /\ ~HeldLocally(r)
            /\ res[r].status # 201

\* No stored record of this type has this id.
NoStored(type, id) ==
    LET coll == IF type = "patient" THEN patients ELSE organs
    IN  \A k \in 1..Len(coll) : Prop(coll[k], "_id").v # id

\* Slot r's request has returned no verdict and started no replay.
NoVerdictNoReplay(r) ==
    /\ "valid" \notin DOMAIN res[r].body
    /\ promise[r] = "none" /\ sdk[r] = "none" /\ timeout[r] = "none"
    /\ delivered[r] = <<>>

\* C19: a point verification with a type other than "patient" and "organ" has
\* answered 400, one with a known type and an id of no stored record has
\* answered 404, and neither has returned a verdict or started a replay.
C19_VerifyRejections ==
    \A r \in Req :
        kind[r] = "postVerify" =>
            LET type == Prop(body[r], "type").v
                id == Prop(body[r], "id").v
            IN  /\ type \notin {"patient", "organ"}
                      => (res[r].status = 400 /\ NoVerdictNoReplay(r))
                /\ (type \in {"patient", "organ"} /\ NoStored(type, id))
                      => (res[r].status = 404 /\ NoVerdictNoReplay(r))

\* C20: the topic grows by one entry at a time, and an entry appended while
\* the server runs a request is the one submission of that request: it is
\* made at the request's submit step, no submission of the request came
\* before it, and none comes after it; a subscription is opened only when a
\* request starts, never again while the request runs.
C20_NoRetry ==
    [][/\ topic' # topic =>
            /\ Len(topic') = Len(topic) + 1
            /\ started > 0 =>
                  \E r \in Req : /\ pc[r] = "submit" /\ txId[r] = 0
                                  /\ txId'[r] = Len(topic')
                                  /\ started' = started
       /\ \A r \in Req :
            started' = started =>
                /\ txId[r] # 0 => topic' = topic
                /\ sdk[r] # "open" => sdk'[r] # "open"
                /\ Len(delivered'[r]) >= Len(delivered[r])]_vars

\* C20 witness: a create request failed at the store after its submission had
\* succeeded, and the topic holds the one entry the request appended.
C20_Witness ==
    \E r \in Req :
        /\ Creating(r) /\ pc[r] = "done" /\ res[r].status = 500
        /\ Submitted(r)
        /\ Len(topic) = 1

\* What slot r has collected is what its own subscription delivered: the
\* sequence numbers seen are those of the entries delivered to it, each listed
\* once, and the decoded array has one element per well-formed entry handed
\* to its message callback.
OwnCollection(r) ==
    /\ Logging(r) =>
          /\ seenSequenceNumbers[r] = {SeqText(i) : i \in DeliveredSeqs(r)}
          /\ {messages[r][k].sequenceNumber : k \in 1..Len(messages[r])}
                 = seenSequenceNumbers[r]
          /\ Len(messages[r]) = Cardinality(DeliveredSeqs(r))
    /\ (Verifying(r) /\ pc[r] = "replay") =>
          Len(logs[r]) = Cardinality({k \in 1..Len(delivered[r]) :
                                        /\ delivered[r][k].ch = "message"
                                        /\ ~NoSeparator(topic[delivered[r][k].seq])})

\* The replay state of slot q is left as it is by a step.
ReplayStateKept(q) ==
    /\ logs'[q] = logs[q] /\ hederaLogs'[q] = hederaLogs[q]
    /\ hederaHashes'[q] = hederaHashes[q] /\ expectedCount'[q] = expectedCount[q]
    /\ messages'[q] = messages[q] /\ seenSequenceNumbers'[q] = seenSequenceNumbers[q]
    /\ delivered'[q] = delivered[q] /\ promise'[q] = promise[q]
    /\ timeout'[q] = timeout[q] /\ res'[q] = res[q]

\* C21: with two replays interleaved, a delivery to one slot changes nothing
\* of the other slot's replay state, and after every step each slot's
\* collection is the one its own deliveries give.
C21_NoSharedReplayState ==
    [][/\ \A r, q \in Req : (r # q /\ delivered'[r] # delivered[r]) => ReplayStateKept(q)
       /\ \A r \in Req : OwnCollection(r)']_vars

\* C21 witness: two replays are pending at once and the same entry was
\* delivered to both, each having collected it.
C21_Witness ==
    \E r, q \in Req :
        /\ r # q
        /\ Logging(r) /\ promise[r] = "pending" /\ "1" \in seenSequenceNumbers[r]
        /\ promise[q] = "pending" /\ 1 \in DeliveredSeqs(q)
        /\ (Logging(q) => Len(messages[q]) = 1)
        /\ (Verifying(q) => Len(logs[q]) = 1)

\* The position of the first separator of contents that hold one.
FirstSep(c) == CHOOSE k \in 1..Len(c) : c[k] = Sep /\ \A j \in 1..(k - 1) : c[j] # Sep

\* The text before and the text after the first separator.
TextBefore(c) == Join(SubSeq(c, 1, FirstSep(c) - 1), "")
TextAfter(c) == Join(SubSeq(c, FirstSep(c) + 1, Len(c)), "")

\* Splitting at the first separator yields exactly two non-empty parts.
TwoParts(c) == ~NoSeparator(c) /\ TextBefore(c) # "" /\ TextAfter(c) # ""

\* The decoded entries of the deliveries ds to a message callback, by the rule
\* of the first separator.
RECURSIVE DecodedByFirstSep(_, _)
DecodedByFirstSep(ds, t) ==
    IF ds = <<>> THEN <<>>
    ELSE LET d == ds[Len(ds)]
             rest == DecodedByFirstSep(SubSeq(ds, 1, Len(ds) - 1), t)
         IN  IF d.ch = "message" /\ TwoParts(t[d.seq])
             THEN Append(rest, [type |-> TextBefore(t[d.seq]), hash |-> TextAfter(t[d.seq])])
             ELSE rest

\* C22: the decoded array of a replay holds, for each entry handed to its
\* message callback whose contents split at the first separator into two
\* non-empty parts, the text before and the text after that separator, and
\* nothing for any other entry.
C22_DecodedAtFirstSeparator ==
    \A r \in Req : Verifying(r) => logs[r] = DecodedByFirstSep(delivered[r], topic)

\* The sequence numbers of the well-formed entries handed to the message
\* callback of slot r.
CollectedSeqs(r) ==
    {delivered[r][k].seq : k \in {j \in 1..Len(delivered[r]) :
                                     /\ delivered[r][j].ch = "message"
                                     /\ ~Malformed(topic[delivered[r][j].seq])}}

\* C23: a replay called with the count N has ended before its deadline
\* exactly when N distinct well-formed entries were collected, and the window
\* it then returned holds those N entries, one each.
C23_StopsAtNDistinct ==
    \A r \in Req :
        (kind[r] = "getHederaHashes" /\ expectedCount[r].finite) =>
            LET N == expectedCount[r].n
                early == promise[r] = "resolved" /\ timeout[r] = "cleared"
            IN  /\ (Cardinality(CollectedSeqs(r)) >= N /\ promise[r] # "rejected") => early
                /\ early =>
                      /\ Cardinality(CollectedSeqs(r)) = N
                      /\ Len(hederaLogs[r]) = N
                      /\ {hederaLogs[r][k].hash : k \in 1..Len(hederaLogs[r])}
                             = {Part(topic[i], 2) : i \in CollectedSeqs(r)}

\* C24: an entry a create request of the server appends to the topic is
\* PATIENT|h for POST /patients and ORGAN|h for POST /organs, h being the hash
\* of the semantic fields of the request's record, and a step of such a
\* request appends nothing else.
C24_SubmittedMessageShape ==
    [][/\ \A r \in Req :
            (Creating(r) /\ pc[r] = "submit" /\ topic' # topic) =>
                topic' = Append(topic,
                                IF kind[r] = "postPatients"
                                THEN <<"PATIENT", "|", hashData(PatientFields(body[r]))>>
                                ELSE <<"ORGAN", "|", hashData(OrganFields(body[r]))>>)
       /\ (started > 0 /\ topic' # topic) =>
            /\ \E r \in Req : pc[r] = "submit"
            /\ Len(topic') = Len(topic) + 1
            /\ Len(topic'[Len(topic')]) = 3
            /\ topic'[Len(topic')][1] \in {"PATIENT", "ORGAN"}
            /\ topic'[Len(topic')][2] = "|"]_vars

\* C24 witness: the topic holds the message of an organ request, and before
\* it the message of a patient request.
C24_Witness ==
    \E r \in Req :
        /\ kind[r] = "postOrgans" /\ txId[r] = 2
        /\ topic[2] = <<"ORGAN", "|", hashData(OrganFields(Kidney))>>
        /\ topic[1][1] = "PATIENT" /\ Len(topic[1]) = 3

\* The topic holds the anchor message of this type tag and hash.
OnTopic(tag, h) == \E i \in 1..Len(topic) : topic[i] = <<tag, "|", h>>

\* Every stored record was written by a create request whose anchor is on the
\* topic.
StoreIsAnchored ==
    /\ \A k \in 1..Len(patients) :
          /\ Prop(patients[k], "_id").v \in DOMAIN anchorOf
          /\ OnTopic("PATIENT", anchorOf[Prop(patients[k], "_id").v])
    /\ \A k \in 1..Len(organs) :
          /\ Prop(organs[k], "_id").v \in DOMAIN anchorOf
          /\ OnTopic("ORGAN", anchorOf[Prop(organs[k], "_id").v])

\* C25: a step that writes a record to the store is made by a create request
\* whose anchor is already on the topic, a create request whose submission
\* fails leaves the store as it was, and after every step each stored record
\* has the anchor of its request on the topic.
C25_AnchorBeforeStore ==
    [][/\ (Len(patients') + Len(organs') > Len(patients) + Len(organs)) =>
                \E r \in Req : /\ Creating(r) /\ pc[r] = "create"
                                /\ OnTopic(TypeTag(kind[r]), hash[r])
       /\ \A r \in Req :
            (Creating(r) /\ pc[r] = "submit" /\ pc'[r] = "done") =>
                (patients' = patients /\ organs' = organs /\ topic' = topic)
       /\ StoreIsAnchored']_vars

\* C25 witness: a record is stored with its anchor on the topic, and a later
\* create request whose submission failed has answered with the store as it
\* was.
C25_Witness ==
    \E r \in Req :
        /\ Creating(r) /\ pc[r] = "done" /\ txId[r] = 0 /\ res[r].status = 500
        /\ Len(patients) + Len(organs) = 1
        /\ StoreIsAnchored

\* The set of hash values a window carries.
HashesOf(window) == {window[k].hash : k \in 1..Len(window)}

\* The verdicts a finished verification has given: record id and valid.
Verdicts(r) ==
    IF kind[r] = "getVerify"
    THEN {<<res[r].body.results[k].id, res[r].body.results[k].valid>> :
             k \in 1..Len(res[r].body.results)}
    ELSE {<<res[r].body.id, res[r].body.valid>>}

\* C26: two finished verifications of the same stored records whose windows
\* carry the same set of hash values have given the same verdicts, whatever
\* the type tags, the order and the multiplicity of the entries, and a
\* verdict is valid exactly when the record's hash is in that set.
C26_VerdictFromHashSet ==
    \A r, q \in Req :
        ((BulkDone(r) \/ PointDone(r)) /\ (BulkDone(q) \/ PointDone(q))) =>
            /\ HashesOf(hederaLogs[r]) = HashesOf(hederaLogs[q]) => Verdicts(r) = Verdicts(q)
            /\ \A v \in Verdicts(r) :
                  v[2] <=> \E k \in 1..Len(patients) :
                               /\ Prop(patients[k], "_id").v = v[1]
                               /\ hashData(PatientFields(patients[k])) \in HashesOf(hederaLogs[r])

\* C26 witness: a bulk and a point verification have both found the patient
\* valid, from windows with the same hash set that differ in type tags or
\* multiplicity, one of them holding the hash under the tag ORGAN only.
C26_Witness ==
    \E r, q \in Req :
        /\ BulkDone(r) /\ PointDone(q)
        /\ hederaLogs[r] # hederaLogs[q]
        /\ HashesOf(hederaLogs[r]) = HashesOf(hederaLogs[q])
        /\ \A k \in 1..Len(hederaLogs[q]) : hederaLogs[q][k].type = "ORGAN"
        /\ res[q].body.valid
        /\ \E k \in 1..Len(res[r].body.results) : res[r].body.results[k].valid

\* The requests of the read path of the server.
Reading(r) == kind[r] \in {"getVerify", "postVerify", "getLogs"}

\* Everything slot r's request holds.
SlotState(r) ==
    <<kind[r], pc[r], body[r], hash[r], res[r], expectedCount[r], logs[r], hederaLogs[r],
      hederaHashes[r], messages[r], seenSequenceNumbers[r], timeout[r], promise[r],
      subscription[r], sdk[r], unsubscribed[r], delivered[r]>>

\* C27: every step of a GET /verify, POST /verify or GET /logs request, from
\* its arrival to its answer and the callbacks that fire after it, leaves the
\* stored records and the topic as they were.
C27_ReadPathWritesNothing ==
    [][\A r \in Req :
          (Reading(r)' /\ SlotState(r)' # SlotState(r)) =>
              (patients' = patients /\ organs' = organs /\ topic' = topic)]_vars

\* C27 witness: a read request has been answered 500 over a store and a topic
\* that hold a record and its anchor.
C27_Witness ==
    \E r \in Req :
        /\ Reading(r) /\ pc[r] = "done" /\ res[r].status = 500
        /\ patients # <<>> /\ topic # <<>>
        /\ StoreIsAnchored

====
